---- MODULE Spec2Model ----
(***************************************************************************)
(* Engagement core of the QuickNews backend: the like / follow toggles,    *)
(* the comment tree and the counters they maintain, as implemented by the  *)
(* engagement controller and the mongoose models.                          *)
(*                                                                         *)
(* Every HTTP request is one execution context.  A request advances one    *)
(* awaited data-store call at a time, so requests interleave exactly at    *)
(* the controller's `await` points.  Purely local work between two awaits  *)
(* (comparisons, the synchronous socket emit, writing the response) is     *)
(* part of the step that follows the preceding await.                      *)
(***************************************************************************)
EXTENDS Integers, Sequences, FiniteSets, TLC

VARIABLES
    likes,      \* Like collection: set of rows [id, user, content, contentType]
    follows,    \* Follow collection: set of rows [id, follower, following, status]
    comments,   \* Comment collection: set of rows
    stats,      \* User.stats of every existing user: [followers, following]
    seq,        \* ObjectId generators: last _id handed out per collection
    req,        \* the requests: position, arguments, locals, response
    io,         \* the Socket.IO server handle that attachSocketIO copies to req.io
    overlap,    \* history: some request started while another was in flight
    sockets,    \* the Socket.IO connections: handshake position, rooms, packets received
    redis,      \* the Redis client of redisCache.js: up, disabled, unconnected, flaky
    feedCache,  \* the cached feed responses, keys feed:<page>:<limit>:<category>:<user>
    articleCache, \* the cached getArticle responses, keys article:<id>
    article,    \* the Article document a1: exists, status, rev, views
    crash,      \* history: whether the process died, and the counter drift it left
    stream      \* a GET /api/videos/:id/stream request: file, Range header, response

vars == <<likes, follows, comments, stats, seq, req, io, overlap, sockets,
          redis, feedCache, articleCache, article, crash, stream>>

\* what the engagement controller and the socket middleware never touch
sideVars == <<redis, feedCache, articleCache, article, crash, stream>>

(***************************************************************************)
(* Bounds of the model.                                                    *)
(***************************************************************************)
MaxReq == 3

Req == 1..MaxReq

\* Socket.IO connections opened during a run
MaxSock == 2

Sock == 1..MaxSock

\* requests served while connections come and go
MaxSockReq == 2

None == "none"

\* null for an ObjectId-valued field (ids are positive)
NoId == 0

\* no text argument
NoText == [pad |-> 0, core |-> 0]

\* no feed response
NoFeed == [likes |-> 0, comments |-> 0, userLiked |-> FALSE]

\* no article response
NoDoc == [status |-> None, rev |-> 0, views |-> 0]

(***************************************************************************)
(* The data the out-of-scope parts of the program created before the       *)
(* engagement requests run: registered users, one video, one article.      *)
(* "u3" is a well-formed user id no User document has; "v0" is a           *)
(* well-formed content id no document has.                                 *)
(***************************************************************************)
Users == {"u1", "u2"}

UserIds == Users \cup {"u3"}

Videos == {"v1"}

Articles == {"a1"}

ContentIds == Videos \cup Articles \cup {"v0"}

ContentTypes == {"Video", "Article", "Comment", "Playlist"}

CommentIds == 1..MaxReq

(***************************************************************************)
(* Comment text.  A text is represented by what the schema looks at: the   *)
(* number of leading/trailing whitespace characters and the number of      *)
(* characters that remain after trimming.                                  *)
(***************************************************************************)
MaxTextLength == 1000

Texts == { [pad |-> 1, core |-> 2],
           [pad |-> 2, core |-> 0],
           [pad |-> 0, core |-> MaxTextLength + 1] }

\* commentSchema.text: trim: true
Trim(text) == text.core

\* commentSchema.text: required (an empty string fails it) and maxlength
TextValid(text) == Trim(text) >= 1 /\ Trim(text) =< MaxTextLength

(***************************************************************************)
(* Requests.                                                               *)
(***************************************************************************)
IdleReq == [op |-> None, pc |-> "idle", user |-> None, contentId |-> None,
            contentType |-> None, targetUserId |-> None, commentId |-> NoId,
            parentComment |-> NoId, text |-> NoText, existing |-> NoId,
            wrote |-> FALSE, dupKey |-> FALSE, status |-> 0, event |-> None,
            effect |-> None, hit |-> FALSE, stale |-> FALSE, feed |-> NoFeed,
            doc |-> NoDoc, newStatus |-> None, leak |-> FALSE]

InFlight(r) == req[r].pc \notin {"idle", "done"}

Done(r) == req[r].pc = "done"

Quiescent == \A r \in Req : ~InFlight(r)

\* Requests are numbered in the order in which they arrive.
CanStart(r) == /\ req[r].pc = "idle"
               /\ \A q \in Req : q < r => req[q].pc # "idle"

Arrive == overlap' = (overlap \/ \E q \in Req : InFlight(q))

(***************************************************************************)
(* Socket.IO connections.  A connection is "lookup" while                  *)
(* socketAuthMiddleware awaits User.findById, "connected" once the         *)
(* middleware called next() with no error, "rejected" when it called       *)
(* next(error), "closed" after its disconnect.  got[r] counts the packets  *)
(* the connection received from request r's emit.                          *)
(***************************************************************************)
IdleSock == [st |-> "idle", decoded |-> None, user |-> None, rooms |-> {},
             error |-> None, got |-> [r \in Req |-> 0]]

\* socket.handshake.auth.token: absent, not a valid JWT, an expired JWT, or a
\* valid JWT whose payload id is `id`
Tokens == {[kind |-> k, id |-> None] : k \in {"missing", "malformed", "expired"}}
          \cup {[kind |-> "valid", id |-> u] : u \in UserIds}

AcceptAnyToken(token) == TRUE

\* jwt.verify(token, process.env.JWT_SECRET) returns (does not throw)
JwtVerifies(token) == token.kind = "valid"

\* every connection joins the room of user "u1"
SameRoomForAll(user) == <<"user", "u1">>

\* `user:${user._id}`
UserRoom(user) == <<"user", user>>

\* connections still inside the handshake are served too
RecipientsWithPending == {s \in Sock : sockets[s].st \in {"lookup", "connected"}}

\* connections that have disconnected are still served
RecipientsWithClosed == {s \in Sock : sockets[s].st \in {"connected", "closed"}}

\* io.emit(...) with no room selected: every connection of the namespace,
\* i.e. every connection whose handshake completed and that has not closed
Recipients == {s \in Sock : sockets[s].st = "connected"}

\* req.io.emit(eventName, payload): one packet to every recipient, nothing
\* kept for anyone else
IoEmit(r) ==
    [s \in Sock |-> IF s \in Recipients
                    THEN [sockets[s] EXCEPT !.got[r] = @ + 1]
                    ELSE sockets[s]]

\* next(createError(status, message)) / res.status(status).json(...): the
\* request is over.  Of its arguments and locals only `keep` stays on record.
\* `event` is the type of the event the handler emitted before responding.
Finish(r, op, keep, status, event) ==
    /\ req' = [req EXCEPT ![r] = [k \in DOMAIN IdleReq |->
              IF k = "pc" THEN "done"
              ELSE IF k = "op" THEN op
              ELSE IF k = "status" THEN status
              ELSE IF k = "event" THEN event
              ELSE IF k \in DOMAIN keep THEN keep[k]
              ELSE IdleReq[k]]]
    /\ sockets' = IF event # None THEN IoEmit(r) ELSE sockets

\* the request suspends at its next await
Suspend(r, fields, pc) ==
    /\ req' = [req EXCEPT ![r] = [k \in DOMAIN IdleReq |->
              IF k = "pc" THEN pc
              ELSE IF k \in DOMAIN fields THEN fields[k]
              ELSE req[r][k]]]
    /\ UNCHANGED sockets

\* the end of a handler that makes no cache call and touches no article
Respond(r, op, keep, status, event) ==
    /\ Finish(r, op, keep, status, event)
    /\ UNCHANGED sideVars

\* an await of a handler that makes no cache call and touches no article
Goto(r, fields, pc) ==
    /\ Suspend(r, fields, pc)
    /\ UNCHANGED sideVars

\* the arguments and locals of r named in ks
Keep(r, ks) == [k \in ks |-> req[r][k]]

NoFields == [x \in {} |-> None]

(***************************************************************************)
(* Socket emit.  req.io is the module-level `io` of server.js: undefined   *)
(* until startServer creates the Server.  "throws" is a handle whose emit  *)
(* raises.                                                                 *)
(***************************************************************************)
IoStates == {"ok", "undefined", "throws"}

\* if (req.io) { req.io.emit(...) }
EmitGuarded == IF io = "undefined" THEN "skipped"
               ELSE IF io = "throws" THEN "threw"
               ELSE "sent"

\* req.io.emit(...) with no guard: a TypeError when req.io is undefined
EmitUnguarded == IF io = "ok" THEN "sent" ELSE "threw"

(***************************************************************************)
(* Content Registry: Video.exists / Article.exists / Comment.exists.       *)
(***************************************************************************)
CommentExists(id) == \E c \in comments : c.id = id

\* a controller that skips the content lookup
AnyContentExists(contentId, contentType) == TRUE

\* toggleLike accepts Video, Article and Comment
LikeContentExists(contentId, contentType) ==
    IF contentType = "Video" THEN contentId \in Videos
    ELSE IF contentType = "Article" THEN contentId \in Articles
    ELSE IF contentType = "Comment" THEN CommentExists(contentId)
    ELSE FALSE

(***************************************************************************)
(* Like collection.                                                        *)
(***************************************************************************)
\* Like.findOne({user, content, contentType})
LikeFindOne(u, c, t) ==
    IF \E l \in likes : l.user = u /\ l.content = c /\ l.contentType = t
    THEN (CHOOSE l \in likes : l.user = u /\ l.content = c /\ l.contentType = t).id
    ELSE NoId

\* a unique index on content alone
ContentOnlyIndex(u, c) == \E l \in likes : l.content = c

\* a Like collection without the unique index
NoLikeIndex(u, c) == FALSE

\* likeSchema.index({user: 1, content: 1}, {unique: true}): E11000 on insert
LikeDuplicateKey(u, c) == \E l \in likes : l.user = u /\ l.content = c

\* a deleteOne that matches no document
LikeDeleteNothing(id) == likes

\* Like.deleteOne({_id})
LikeDeleteOne(id) == {l \in likes : l.id # id}

\* Like.create({user, content, contentType})
LikeInsert(u, c, t) ==
    likes \cup {[id |-> seq.like + 1, user |-> u, content |-> c, contentType |-> t]}

\* toggleLike up to the result of `await Like.findOne(...)`
toggleLikeFind(r, u, c, t) ==
    /\ CanStart(r)
    /\ Arrive
    /\ LET a == [user |-> u, contentId |-> c, contentType |-> t]
       IN IF ~LikeContentExists(c, t)
          THEN Respond(r, "toggleLike", NoFields, 404, None)
          ELSE Goto(r, a @@ [op |-> "toggleLike", existing |-> LikeFindOne(u, c, t)],
                    "toggle")
    /\ UNCHANGED <<likes, follows, comments, stats, seq, io>>

\* what stays on record of a toggleLike that wrote
LikeRecord(r) == [wrote |-> TRUE] @@ Keep(r, {"user", "contentId", "contentType"})

\* history: what Like.deleteOne({_id: id}) does to the collection
LikeDeleteEffect(id) == IF \E l \in likes : l.id = id THEN "deleted" ELSE "nothing"

\* toggleLike from `if (existingLike)` to the response
toggleLikeWrite(r) ==
    /\ req[r].op = "toggleLike" /\ req[r].pc = "toggle"
    /\ LET u == req[r].user
           c == req[r].contentId
           t == req[r].contentType
       IN IF req[r].existing # NoId
          THEN /\ likes' = LikeDeleteOne(req[r].existing)
               /\ seq' = seq
               /\ LET rec == [effect |-> LikeDeleteEffect(req[r].existing)]
                             @@ LikeRecord(r)
                  IN IF EmitGuarded = "threw"
                     THEN Respond(r, "toggleLike", rec, 500, None)
                     ELSE Respond(r, "toggleLike", rec, 200,
                                  IF EmitGuarded = "sent" THEN "unlike" ELSE None)
          ELSE IF LikeDuplicateKey(u, c)
          THEN /\ UNCHANGED <<likes, seq>>
               /\ Respond(r, "toggleLike",
                          [dupKey |-> TRUE] @@ Keep(r, {"user", "contentId", "contentType"}),
                          500, None)
          ELSE /\ likes' = LikeInsert(u, c, t)
               /\ seq' = [seq EXCEPT !.like = @ + 1]
               /\ LET rec == [effect |-> "created"] @@ LikeRecord(r)
                  IN IF EmitGuarded = "threw"
                     THEN Respond(r, "toggleLike", rec, 500, None)
                     ELSE Respond(r, "toggleLike", rec, 201,
                                  IF EmitGuarded = "sent" THEN "like" ELSE None)
    /\ UNCHANGED <<follows, comments, stats, io, overlap>>

(***************************************************************************)
(* Follow collection and the users' denormalized counters.                 *)
(***************************************************************************)
\* User.exists({_id: targetUserId})
\* a controller that skips the target lookup
EveryUserExists(id) == TRUE

UserExists(id) == id \in Users

\* a controller without the self-follow check
NeverSelf(userId, targetUserId) == FALSE

\* if (targetUserId === userId.toString())
IsSelfFollow(userId, targetUserId) == targetUserId = userId

\* Follow.findOne({follower, following})
FollowFindOne(f, t) ==
    IF \E w \in follows : w.follower = f /\ w.following = t
    THEN (CHOOSE w \in follows : w.follower = f /\ w.following = t).id
    ELSE NoId

\* followSchema.index({follower: 1, following: 1}, {unique: true})
FollowDuplicateKey(f, t) == \E w \in follows : w.follower = f /\ w.following = t

\* followSchema.pre('save'): rejects follower === following
FollowPreSaveRejects(f, t) == f = t

\* Follow.deleteOne({_id})
FollowDeleteOne(id) == {w \in follows : w.id # id}

\* Follow.create({follower, following}); status defaults to 'active'
FollowInsert(f, t) ==
    follows \cup {[id |-> seq.follow + 1, follower |-> f, following |-> t,
                   status |-> "active"]}

\* the follow branch's increment on both branches
AlwaysIncrement(existing) == 1

\* $inc of -1 on the unfollow branch, of 1 on the follow branch
FollowDelta(existing) == IF existing # NoId THEN -1 ELSE 1

\* an update that only ever touches stats.followers
IncStatFollowersOnly(id, field, d) ==
    IF id \in DOMAIN stats /\ field = "followers"
    THEN [stats EXCEPT ![id] = [@ EXCEPT ![field] = @ + d]]
    ELSE stats

\* User.updateOne({_id}, {$inc: {'stats.<field>': d}}): matches no document
\* when the user does not exist
IncStat(id, field, d) ==
    IF id \in DOMAIN stats
    THEN [stats EXCEPT ![id] = [@ EXCEPT ![field] = @ + d]]
    ELSE stats

\* toggleFollow up to the result of `await Follow.findOne(...)`
toggleFollowFind(r, u, t) ==
    /\ CanStart(r)
    /\ Arrive
    /\ LET a == [user |-> u, targetUserId |-> t]
       IN IF IsSelfFollow(u, t)
          THEN Respond(r, "toggleFollow", a, 400, None)
          ELSE IF ~UserExists(t)
          THEN Respond(r, "toggleFollow", NoFields, 404, None)
          ELSE Goto(r, a @@ [op |-> "toggleFollow", existing |-> FollowFindOne(u, t)],
                    "toggle")
    /\ UNCHANGED <<likes, follows, comments, stats, seq, io>>

\* Follow.deleteOne on the unfollow branch, Follow.create on the follow branch
toggleFollowWrite(r) ==
    /\ req[r].op = "toggleFollow" /\ req[r].pc = "toggle"
    /\ LET u == req[r].user
           t == req[r].targetUserId
       IN IF req[r].existing # NoId
          THEN /\ follows' = FollowDeleteOne(req[r].existing)
               /\ seq' = seq
               /\ Goto(r, [wrote |-> TRUE], "followers")
          ELSE IF FollowPreSaveRejects(u, t)
          THEN /\ UNCHANGED <<follows, seq>>
               /\ Respond(r, "toggleFollow", Keep(r, {"user", "targetUserId"}), 500, None)
          ELSE IF FollowDuplicateKey(u, t)
          THEN /\ UNCHANGED <<follows, seq>>
               /\ Respond(r, "toggleFollow",
                          [dupKey |-> TRUE] @@ Keep(r, {"user", "targetUserId"}),
                          500, None)
          ELSE /\ follows' = FollowInsert(u, t)
               /\ seq' = [seq EXCEPT !.follow = @ + 1]
               /\ Goto(r, [wrote |-> TRUE], "followers")
    /\ UNCHANGED <<likes, comments, stats, io, overlap>>

\* User.updateOne({_id: targetUserId}, {$inc: {'stats.followers': +-1}})
toggleFollowFollowers(r) ==
    /\ req[r].op = "toggleFollow" /\ req[r].pc = "followers"
    /\ stats' = IncStat(req[r].targetUserId, "followers", FollowDelta(req[r].existing))
    /\ Goto(r, NoFields, "following")
    /\ UNCHANGED <<likes, follows, comments, seq, io, overlap>>

\* what stays on record of a toggleFollow that wrote
FollowRecord(r) == Keep(r, {"user", "targetUserId", "wrote"})

\* User.updateOne({_id: userId}, {$inc: {'stats.following': +-1}}), the emit
\* and the response
toggleFollowFollowing(r) ==
    /\ req[r].op = "toggleFollow" /\ req[r].pc = "following"
    /\ stats' = IncStat(req[r].user, "following", FollowDelta(req[r].existing))
    /\ IF EmitGuarded = "threw"
       THEN Respond(r, "toggleFollow", FollowRecord(r), 500, None)
       ELSE IF req[r].existing # NoId
       THEN Respond(r, "toggleFollow", FollowRecord(r), 200,
                    IF EmitGuarded = "sent" THEN "unfollow" ELSE None)
       ELSE Respond(r, "toggleFollow", FollowRecord(r), 201,
                    IF EmitGuarded = "sent" THEN "follow" ELSE None)
    /\ UNCHANGED <<likes, follows, comments, seq, io, overlap>>

(***************************************************************************)
(* Comment collection.                                                     *)
(***************************************************************************)
\* createComment accepts Video and Article only
CommentContentExists(contentId, contentType) ==
    IF contentType = "Video" THEN contentId \in Videos
    ELSE IF contentType = "Article" THEN contentId \in Articles
    ELSE FALSE

\* Comment.findById(id); callers test CommentExists(id) first
CommentById(id) == CHOOSE c \in comments : c.id = id

\* Comment.create({user, content, contentType, text, parentComment}) with the
\* schema defaults repliesCount: 0, isEdited: false, active: true
CommentInsert(u, c, t, text, parent) ==
    comments \cup {[id |-> seq.comment + 1, user |-> u, content |-> c,
                    contentType |-> t, text |-> Trim(text),
                    parentComment |-> parent, repliesCount |-> 0,
                    isEdited |-> FALSE, active |-> TRUE]}

\* an update that leaves repliesCount alone
NoIncReplies(id, d) == comments

\* Comment.findByIdAndUpdate(id, {$inc: {repliesCount: d}}): updates nothing
\* when no comment has that id
IncReplies(id, d) ==
    {IF c.id = id THEN [c EXCEPT !.repliesCount = @ + d] ELSE c : c \in comments}

\* comment.text = text; comment.isEdited = true; comment.save()
CommentSave(id, text) ==
    {IF c.id = id THEN [c EXCEPT !.text = Trim(text), !.isEdited = TRUE] ELSE c
        : c \in comments}

\* comment.deleteOne(): removes the document
CommentDeleteOne(id) == {c \in comments : c.id # id}

\* what stays on record of a comment request that wrote
CommentRecord(r) == Keep(r, {"commentId", "parentComment", "wrote"})

\* createComment up to the result of `await Comment.exists({_id: parentComment})`
createCommentCheck(r, u, c, t, text, parent) ==
    /\ CanStart(r)
    /\ Arrive
    /\ LET a == [op |-> "createComment", user |-> u, contentId |-> c,
                 contentType |-> t, text |-> text, parentComment |-> parent]
       IN IF ~CommentContentExists(c, t)
          THEN Respond(r, "createComment", NoFields, 404, None)
          ELSE IF parent # NoId /\ ~CommentExists(parent)
          THEN Respond(r, "createComment", NoFields, 404, None)
          ELSE Goto(r, a, "create")
    /\ UNCHANGED <<likes, follows, comments, stats, seq, io>>

\* Comment.findById(comment._id).populate(...), the guarded emit and the
\* response that follow the last write of createComment
createCommentRespond(r, id) ==
    LET rec == [commentId |-> id, wrote |-> TRUE] @@ Keep(r, {"parentComment"})
    IN IF EmitGuarded = "threw"
       THEN Respond(r, "createComment", rec, 500, None)
       ELSE Respond(r, "createComment", rec, 201,
                    IF EmitGuarded = "sent" THEN "new" ELSE None)

\* await Comment.create(...): schema validation, then the insert
createCommentCreate(r) ==
    /\ req[r].op = "createComment" /\ req[r].pc = "create"
    /\ IF ~TextValid(req[r].text)
       THEN /\ UNCHANGED <<comments, seq>>
            /\ Respond(r, "createComment", NoFields, 500, None)
       ELSE /\ comments' = CommentInsert(req[r].user, req[r].contentId,
                                         req[r].contentType, req[r].text,
                                         req[r].parentComment)
            /\ seq' = [seq EXCEPT !.comment = @ + 1]
            /\ IF req[r].parentComment # NoId
               THEN Goto(r, [wrote |-> TRUE, commentId |-> seq.comment + 1], "incParent")
               ELSE createCommentRespond(r, seq.comment + 1)
    /\ UNCHANGED <<likes, follows, stats, io, overlap>>

\* await Comment.findByIdAndUpdate(parentComment, {$inc: {repliesCount: 1}})
createCommentIncParent(r) ==
    /\ req[r].op = "createComment" /\ req[r].pc = "incParent"
    /\ comments' = IncReplies(req[r].parentComment, 1)
    /\ createCommentRespond(r, req[r].commentId)
    /\ UNCHANGED <<likes, follows, stats, seq, io, overlap>>

\* updateComment up to the author check
\* a controller without the ownership check
EveryoneIsAuthor(comment, u) == TRUE

\* comment.user.toString() === userId.toString()
IsAuthor(comment, u) == comment.user = u

updateCommentFind(r, u, id, text) ==
    /\ CanStart(r)
    /\ Arrive
    /\ LET a == [op |-> "updateComment", user |-> u, commentId |-> id, text |-> text]
       IN IF ~CommentExists(id)
          THEN Respond(r, "updateComment", NoFields, 404, None)
          ELSE IF ~IsAuthor(CommentById(id), u)
          THEN Respond(r, "updateComment", NoFields, 403, None)
          ELSE Goto(r, a, "save")
    /\ UNCHANGED <<likes, follows, comments, stats, seq, io>>

\* await comment.save(): validation, then the update of the stored document
\* (save() rejects when the document is gone); then the populate, the
\* unguarded emit and the response
updateCommentSave(r) ==
    /\ req[r].op = "updateComment" /\ req[r].pc = "save"
    /\ IF ~TextValid(req[r].text) \/ ~CommentExists(req[r].commentId)
       THEN /\ UNCHANGED comments
            /\ Respond(r, "updateComment", NoFields, 500, None)
       ELSE /\ comments' = CommentSave(req[r].commentId, req[r].text)
            /\ IF EmitUnguarded = "threw"
               THEN Respond(r, "updateComment",
                            [wrote |-> TRUE] @@ Keep(r, {"commentId"}), 500, None)
               ELSE Respond(r, "updateComment",
                            [wrote |-> TRUE] @@ Keep(r, {"commentId"}), 200, "update")
    /\ UNCHANGED <<likes, follows, stats, seq, io, overlap>>

\* deleteComment up to the author check
deleteCommentFind(r, u, id) ==
    /\ CanStart(r)
    /\ Arrive
    /\ LET a == [op |-> "deleteComment", user |-> u, commentId |-> id]
       IN IF ~CommentExists(id)
          THEN Respond(r, "deleteComment", NoFields, 404, None)
          ELSE IF ~IsAuthor(CommentById(id), u)
          THEN Respond(r, "deleteComment", NoFields, 403, None)
          ELSE Goto(r, a @@ [parentComment |-> CommentById(id).parentComment],
                    IF CommentById(id).parentComment # NoId
                    THEN "decParent" ELSE "delete")
    /\ UNCHANGED <<likes, follows, comments, stats, seq, io>>

\* await Comment.findByIdAndUpdate(comment.parentComment, {$inc: {repliesCount: -1}})
deleteCommentDecParent(r) ==
    /\ req[r].op = "deleteComment" /\ req[r].pc = "decParent"
    /\ comments' = IncReplies(req[r].parentComment, -1)
    /\ Goto(r, NoFields, "delete")
    /\ UNCHANGED <<likes, follows, stats, seq, io, overlap>>

\* await comment.deleteOne(), req.io.emit, the response
deleteCommentDelete(r) ==
    /\ req[r].op = "deleteComment" /\ req[r].pc = "delete"
    /\ comments' = CommentDeleteOne(req[r].commentId)
    /\ IF EmitUnguarded = "threw"
       THEN Respond(r, "deleteComment", [wrote |-> TRUE] @@ CommentRecord(r), 500, None)
       ELSE Respond(r, "deleteComment", [wrote |-> TRUE] @@ CommentRecord(r), 200,
                    "delete")
    /\ UNCHANGED <<likes, follows, stats, seq, io, overlap>>

(***************************************************************************)
(* The handshake of a Socket.IO connection and its end.                    *)
(***************************************************************************)
\* Connections are numbered in the order in which they are opened.
CanOpen(s) == /\ sockets[s].st = "idle"
              /\ \A q \in Sock : q < s => sockets[q].st # "idle"

\* socketAuthMiddleware up to `await User.findById(decoded.id)`
socketAuthVerify(s, token) ==
    /\ CanOpen(s)
    /\ sockets' = [sockets EXCEPT ![s] =
          IF token.kind = "missing"
          THEN [@ EXCEPT !.st = "rejected", !.error = "Token missing"]
          ELSE IF ~JwtVerifies(token)
          THEN [@ EXCEPT !.st = "rejected", !.error = "jwt"]
          ELSE [@ EXCEPT !.st = "lookup", !.decoded = token.id]]
    /\ UNCHANGED <<likes, follows, comments, stats, seq, req, io, overlap, sideVars>>

\* socketAuthMiddleware from the result of User.findById to next()
socketAuthJoin(s) ==
    /\ sockets[s].st = "lookup"
    /\ sockets' = [sockets EXCEPT ![s] =
          IF ~UserExists(sockets[s].decoded)
          THEN [@ EXCEPT !.st = "rejected", !.error = "User not found",
                         !.decoded = None]
          ELSE [@ EXCEPT !.st = "connected", !.user = sockets[s].decoded,
                         !.rooms = @ \cup {UserRoom(sockets[s].decoded)},
                         !.decoded = None]]
    /\ UNCHANGED <<likes, follows, comments, stats, seq, req, io, overlap, sideVars>>

\* socket.on('disconnect'): the connection ends and leaves its rooms
socketDisconnect(s) ==
    /\ sockets[s].st = "connected"
    /\ sockets' = [sockets EXCEPT ![s] = [@ EXCEPT !.st = "closed", !.rooms = {}]]
    /\ UNCHANGED <<likes, follows, comments, stats, seq, req, io, overlap, sideVars>>

(***************************************************************************)
(* The Redis cache of redisCache.js.  "disabled" is CACHE_ENABLED unset,   *)
(* "unconnected" is redisClient = null after a failed connect, "flaky" is  *)
(* a client on which any single command may throw.                         *)
(***************************************************************************)
RedisStates == {"up", "disabled", "unconnected", "flaky"}

\* if (!redisClient || !CACHE_ENABLED) return ...; else the client command
RedisCalls ==
    IF redis = "up" THEN {"ok"}
    ELSE IF redis = "flaky" THEN {"ok", "threw"}
    ELSE {"off"}

\* a helper without its try/catch
Rethrow(o) == o

\* try { ... } catch (error) { console.error(...); return null / false }
TryCatch(o) == IF o = "threw" THEN "failed" ELSE o

\* an entry's TTL runs out
redisExpire ==
    /\ \/ \E e \in feedCache : feedCache' = feedCache \ {e} /\ UNCHANGED articleCache
       \/ \E e \in articleCache : articleCache' = articleCache \ {e} /\ UNCHANGED feedCache
    /\ UNCHANGED <<likes, follows, comments, stats, seq, req, io, overlap, sockets,
                   redis, article, crash, stream>>

(***************************************************************************)
(* The video feed.                                                         *)
(***************************************************************************)
\* router.get('/feed', getVideoFeed): no auth middleware, req.user is unset
FeedRequesters == {None}

EngagementOps == {"toggleLike", "createComment", "updateComment", "deleteComment",
                  "toggleFollow"}

\* history: the engagement mutations that have completed successfully
Completed ==
    Cardinality({r \in Req : /\ req[r].pc = "done"
                             /\ req[r].op \in EngagementOps
                             /\ req[r].status \in {200, 201}})

\* the aggregation over videos, likes and comments for the one video v1
FeedView(u) ==
    [likes |-> Cardinality({l \in likes : l.content = "v1" /\ l.contentType = "Video"}),
     comments |-> Cardinality({c \in comments : /\ c.content = "v1"
                                                /\ c.contentType = "Video"
                                                /\ c.parentComment = NoId}),
     userLiked |-> u # None /\ \E l \in likes : /\ l.content = "v1"
                                                /\ l.contentType = "Video"
                                                /\ l.user = u]

\* the entry under feed:<page>:<limit>:<category>:<u or anon>
FeedEntry(u) == {e \in feedCache : e.user = u}

\* getVideoFeed up to the result of `await getCache(cacheKey)`
getVideoFeedCache(r, u) ==
    /\ CanStart(r)
    /\ Arrive
    /\ \E o \in RedisCalls :
         IF TryCatch(o) = "threw"
         THEN Finish(r, "getVideoFeed", NoFields, 500, None)
         ELSE IF TryCatch(o) = "ok" /\ FeedEntry(u) # {}
         THEN LET e == CHOOSE e \in FeedEntry(u) : TRUE
              IN Finish(r, "getVideoFeed",
                        [user |-> u, hit |-> TRUE, stale |-> e.written < Completed,
                         feed |-> [k \in DOMAIN NoFeed |-> e[k]]],
                        200, None)
         ELSE Suspend(r, [op |-> "getVideoFeed", user |-> u], "aggregate")
    /\ UNCHANGED <<likes, follows, comments, stats, seq, io, sideVars>>

\* await Video.aggregate([...]) and Video.countDocuments(query)
getVideoFeedAggregate(r) ==
    /\ req[r].op = "getVideoFeed" /\ req[r].pc = "aggregate"
    /\ Suspend(r, [feed |-> FeedView(req[r].user)], "setCache")
    /\ UNCHANGED <<likes, follows, comments, stats, seq, io, overlap, sideVars>>

\* await setCache(cacheKey, responseData) and res.json(responseData)
getVideoFeedSet(r) ==
    /\ req[r].op = "getVideoFeed" /\ req[r].pc = "setCache"
    /\ \E o \in RedisCalls :
         IF TryCatch(o) = "threw"
         THEN /\ UNCHANGED feedCache
              /\ Finish(r, "getVideoFeed", NoFields, 500, None)
         ELSE /\ feedCache' =
                   IF TryCatch(o) = "ok"
                   THEN (feedCache \ FeedEntry(req[r].user))
                        \cup {[user |-> req[r].user, written |-> Completed]
                              @@ req[r].feed}
                   ELSE feedCache
              /\ Finish(r, "getVideoFeed", Keep(r, {"user", "feed"}), 200, None)
    /\ UNCHANGED <<likes, follows, comments, stats, seq, io, overlap,
                   redis, articleCache, article, crash, stream>>

(***************************************************************************)
(* The article routes, for the one article a1 that u1 wrote.               *)
(***************************************************************************)
Author == "u1"

ArticleStatuses == {"draft", "published"}

\* router.get('/:id', getArticle): no auth middleware, req.user is unset
ArticleRequesters == {None}

\* history: no updateArticle or deleteArticle is in flight
ArticleSettled ==
    \A q \in Req : InFlight(q) => req[q].op \notin {"updateArticle", "deleteArticle"}

\* article.status !== 'published' && (!req.user || req.user.id !== author)
NotAvailable(u) == article.status # "published" /\ (u = None \/ u # Author)

\* getArticle up to the result of `await getCache(cacheKey)`
getArticleCache(r, u) ==
    /\ CanStart(r)
    /\ Arrive
    /\ \E o \in RedisCalls :
         IF TryCatch(o) = "threw"
         THEN Finish(r, "getArticle", NoFields, 500, None)
         ELSE IF TryCatch(o) = "ok" /\ articleCache # {}
         THEN LET e == CHOOSE e \in articleCache : TRUE
              IN Finish(r, "getArticle",
                        [user |-> u, hit |-> TRUE, doc |-> e,
                         stale |-> /\ ArticleSettled
                                   /\ \/ ~article.exists
                                      \/ e.rev # article.rev
                                      \/ e.status # article.status,
                         leak |-> /\ ArticleSettled
                                  /\ article.exists
                                  /\ article.status # "published"
                                  /\ u # Author],
                        200, None)
         ELSE Suspend(r, [op |-> "getArticle", user |-> u], "find")
    /\ UNCHANGED <<likes, follows, comments, stats, seq, io, sideVars>>

\* await Article.findById(id).populate(...), the 404 and the 403
getArticleFind(r) ==
    /\ req[r].op = "getArticle" /\ req[r].pc = "find"
    /\ IF ~article.exists
       THEN Finish(r, "getArticle", NoFields, 404, None)
       ELSE IF NotAvailable(req[r].user)
       THEN Finish(r, "getArticle", NoFields, 403, None)
       ELSE Suspend(r, [doc |-> [status |-> article.status, rev |-> article.rev,
                                 views |-> article.views]], "save")
    /\ UNCHANGED <<likes, follows, comments, stats, seq, io, overlap, sideVars>>

\* article.viewCount += 1; await article.save(): writes the one modified
\* path; save() rejects when the document is gone
getArticleSave(r) ==
    /\ req[r].op = "getArticle" /\ req[r].pc = "save"
    /\ IF ~article.exists
       THEN /\ UNCHANGED article
            /\ Finish(r, "getArticle", NoFields, 500, None)
       ELSE /\ article' = [article EXCEPT !.views = req[r].doc.views + 1]
            /\ Suspend(r, [doc |-> [req[r].doc EXCEPT !.views = @ + 1]], "setCache")
    /\ UNCHANGED <<likes, follows, comments, stats, seq, io, overlap,
                   redis, feedCache, articleCache, crash, stream>>

\* await setCache(cacheKey, result, 3600) and res.json(result)
getArticleSet(r) ==
    /\ req[r].op = "getArticle" /\ req[r].pc = "setCache"
    /\ \E o \in RedisCalls :
         IF TryCatch(o) = "threw"
         THEN /\ UNCHANGED articleCache
              /\ Finish(r, "getArticle", NoFields, 500, None)
         ELSE /\ articleCache' = IF TryCatch(o) = "ok" THEN {req[r].doc}
                                 ELSE articleCache
              /\ Finish(r, "getArticle", Keep(r, {"user", "doc"}), 200, None)
    /\ UNCHANGED <<likes, follows, comments, stats, seq, io, overlap,
                   redis, feedCache, article, crash, stream>>

\* updateArticle up to the author check
updateArticleFind(r, u, st) ==
    /\ CanStart(r)
    /\ Arrive
    /\ IF ~article.exists
       THEN Finish(r, "updateArticle", NoFields, 404, None)
       ELSE IF Author # u
       THEN Finish(r, "updateArticle", NoFields, 403, None)
       ELSE Suspend(r, [op |-> "updateArticle", user |-> u, newStatus |-> st],
                    "update")
    /\ UNCHANGED <<likes, follows, comments, stats, seq, io, sideVars>>

\* await Article.findByIdAndUpdate(id, updateData, {new: true}): null, and no
\* error, when the document is gone
updateArticleWrite(r) ==
    /\ req[r].op = "updateArticle" /\ req[r].pc = "update"
    /\ article' = IF article.exists
                  THEN [article EXCEPT !.status = req[r].newStatus, !.rev = @ + 1]
                  ELSE article
    /\ Suspend(r, NoFields, "invalidate")
    /\ UNCHANGED <<likes, follows, comments, stats, seq, io, overlap,
                   redis, feedCache, articleCache, crash, stream>>

\* await deleteCache(`article:${id}`); await clearCacheByPattern(`articles:*`)
\* (list keys, of which the model holds none); then the response
Invalidate(r, op, status) ==
    \E o1 \in RedisCalls, o2 \in RedisCalls :
        IF TryCatch(o1) = "threw" \/ TryCatch(o2) = "threw"
        THEN /\ articleCache' = IF TryCatch(o1) = "ok" THEN {} ELSE articleCache
             /\ Finish(r, op, NoFields, 500, None)
        ELSE /\ articleCache' = IF TryCatch(o1) = "ok" THEN {} ELSE articleCache
             /\ Finish(r, op, Keep(r, {"user", "newStatus"}), status, None)

updateArticleInvalidate(r) ==
    /\ req[r].op = "updateArticle" /\ req[r].pc = "invalidate"
    /\ Invalidate(r, "updateArticle", 200)
    /\ UNCHANGED <<likes, follows, comments, stats, seq, io, overlap,
                   redis, feedCache, article, crash, stream>>

\* deleteArticle up to the author check
deleteArticleFind(r, u) ==
    /\ CanStart(r)
    /\ Arrive
    /\ IF ~article.exists
       THEN Finish(r, "deleteArticle", NoFields, 404, None)
       ELSE IF Author # u
       THEN Finish(r, "deleteArticle", NoFields, 403, None)
       ELSE Suspend(r, [op |-> "deleteArticle", user |-> u], "delete")
    /\ UNCHANGED <<likes, follows, comments, stats, seq, io, sideVars>>

\* await Article.findByIdAndDelete(id)
deleteArticleWrite(r) ==
    /\ req[r].op = "deleteArticle" /\ req[r].pc = "delete"
    /\ article' = [article EXCEPT !.exists = FALSE]
    /\ Suspend(r, NoFields, "invalidate")
    /\ UNCHANGED <<likes, follows, comments, stats, seq, io, overlap,
                   redis, feedCache, articleCache, crash, stream>>

deleteArticleInvalidate(r) ==
    /\ req[r].op = "deleteArticle" /\ req[r].pc = "invalidate"
    /\ Invalidate(r, "deleteArticle", 204)
    /\ UNCHANGED <<likes, follows, comments, stats, seq, io, overlap,
                   redis, feedCache, article, crash, stream>>

(***************************************************************************)
(* Process death.  The handlers in flight stop where they are and never    *)
(* respond; the database keeps what was written; the restarted process     *)
(* serves the requests that arrive afterwards.                             *)
(***************************************************************************)
NoCrash == [at |-> FALSE,
            followers |-> [x \in Users |-> 0],
            following |-> [x \in Users |-> 0]]

\* stats.followers minus the Follow rows toward x
FollowersDrift(x) ==
    stats[x].followers - Cardinality({w \in follows : w.following = x})

\* stats.following minus the Follow rows from x
FollowingDrift(x) ==
    stats[x].following - Cardinality({w \in follows : w.follower = x})

\* the process dies while a toggleFollow has written its Follow row and not
\* yet both counters
processCrash ==
    /\ ~crash.at
    /\ \E r \in Req : /\ req[r].op = "toggleFollow"
                      /\ req[r].pc \in {"followers", "following"}
    /\ req' = [r \in Req |->
                 IF InFlight(r)
                 THEN [IdleReq EXCEPT !.pc = "done", !.op = "crashed"]
                 ELSE req[r]]
    /\ crash' = [at |-> TRUE,
                 followers |-> [x \in Users |-> FollowersDrift(x)],
                 following |-> [x \in Users |-> FollowingDrift(x)]]
    /\ UNCHANGED <<likes, follows, comments, stats, seq, io, overlap, sockets,
                   redis, feedCache, articleCache, article, stream>>

(***************************************************************************)
(* streamVideo of videoStream.js.  A Range header is represented by the    *)
(* two strings around its first '-', after 'bytes=' was removed: each is   *)
(* empty, decimal digits, or text that parseInt cannot read.               *)
(***************************************************************************)
MaxChunk == 10485760

NaN == [nan |-> TRUE, n |-> 0]

Num(n) == [nan |-> FALSE, n |-> n]

Empty == [kind |-> "empty", n |-> 0]

Text == [kind |-> "text", n |-> 0]

Digits(n) == [kind |-> "digits", n |-> n]

\* parseInt(part, 10)
ParseInt(part) == IF part.kind = "digits" THEN Num(part.n) ELSE NaN

FileSizes == {0, 1, 100, MaxChunk + 1, MaxChunk + 2, 2 * MaxChunk + 5}

Offsets == {0, 1, 50, 99, 100, 101, MaxChunk, MaxChunk + 1, 2 * MaxChunk + 4}

Parts == {Empty, Text} \cup {Digits(n) : n \in Offsets}

NoRange == [present |-> FALSE, first |-> Empty, second |-> Empty]

Ranges == {NoRange} \cup {[present |-> TRUE, first |-> a, second |-> b] :
                            a \in Parts, b \in Parts}

NoStream == [pc |-> "idle", exists |-> FALSE, fileSize |-> 0, range |-> NoRange,
             status |-> 0, start |-> NaN, end |-> NaN, contentLength |-> NaN,
             served |-> 0]

StreamRequests ==
    {[NoStream EXCEPT !.pc = "request", !.exists = x, !.fileSize = fs, !.range = rg] :
        x \in BOOLEAN, fs \in FileSizes, rg \in Ranges}

\* parts[1] ? parseInt(parts[1], 10) : fileSize - 1
ParseEnd(part, fileSize) ==
    IF part.kind = "empty" THEN Num(fileSize - 1) ELSE ParseInt(part)

\* if (end - start > maxChunk) end = start + maxChunk; a comparison with NaN
\* is false
LimitChunk(start, end) ==
    IF ~end.nan /\ end.n - start.n > MaxChunk THEN Num(start.n + MaxChunk) ELSE end

\* fs.createReadStream(path, {start, end}) throws for start > end; for an
\* end of NaN it throws or reads to the end of the file, by Node version
ReadStreamOutcomes(start, end) ==
    IF end.nan THEN {"throws", "reads"}
    ELSE IF start.n > end.n THEN {"throws"}
    ELSE {"reads"}

\* the bytes a read stream from start to end delivers from a file of that size
BytesRead(start, end, fileSize) ==
    LET last == IF ~end.nan /\ end.n < fileSize - 1 THEN end.n ELSE fileSize - 1
    IN IF last >= start.n THEN last - start.n + 1 ELSE 0

\* end - start + 1
Length(start, end) == IF end.nan THEN NaN ELSE Num(end.n - start.n + 1)

Answer(status, start, end, contentLength, served) ==
    stream' = [stream EXCEPT !.pc = "done", !.status = status, !.start = start,
                             !.end = end, !.contentLength = contentLength,
                             !.served = served]

streamVideo ==
    /\ stream.pc = "request"
    /\ LET fileSize == stream.fileSize
           start == ParseInt(stream.range.first)
           end == LimitChunk(start, ParseEnd(stream.range.second, fileSize))
       IN IF ~stream.exists
          THEN Answer(404, NaN, NaN, NaN, 0)
          ELSE IF ~stream.range.present
          THEN Answer(200, NaN, NaN, Num(fileSize), fileSize)
          ELSE IF start.nan \/ start.n >= fileSize
          THEN Answer(416, start, NaN, NaN, 0)
          ELSE \E o \in ReadStreamOutcomes(start, end) :
                 IF o = "throws"
                 THEN Answer(500, start, end, NaN, 0)
                 ELSE Answer(206, start, end, Length(start, end),
                             BytesRead(start, end, fileSize))
    /\ UNCHANGED <<likes, follows, comments, stats, seq, req, io, overlap, sockets,
                   redis, feedCache, articleCache, article, crash>>

(***************************************************************************)
(* Initial state and the like specification.                               *)
(***************************************************************************)
InitData ==
    /\ likes = {}
    /\ follows = {}
    /\ comments = {}
    /\ stats = [u \in Users |-> [followers |-> 0, following |-> 0]]
    /\ seq = [like |-> 0, follow |-> 0, comment |-> 0]
    /\ req = [r \in Req |-> IdleReq]
    /\ overlap = FALSE
    /\ sockets = [s \in Sock |-> IdleSock]
    /\ feedCache = {}
    /\ crash = NoCrash
    /\ articleCache = {}
    /\ article = [exists |-> TRUE, status |-> "published", rev |-> 0, views |-> 0]

\* initRedis has connected; no stream request
InitStore == InitData /\ redis = "up" /\ stream = NoStream

\* startServer has run: io = new Server(server, ...)
Init == InitStore /\ io = "ok"

LikeArgs == {<<"v1", "Video">>, <<"a1", "Article">>, <<"v0", "Video">>,
             <<"v1", "Playlist">>}

LikeNext ==
    \/ \E r \in Req, u \in Users, a \in LikeArgs : toggleLikeFind(r, u, a[1], a[2])
    \/ \E r \in Req : toggleLikeWrite(r)

LikeSpec == Init /\ [][LikeNext]_vars

FollowNext ==
    \/ \E r \in Req, u \in Users, t \in UserIds : toggleFollowFind(r, u, t)
    \/ \E r \in Req : toggleFollowWrite(r)
    \/ \E r \in Req : toggleFollowFollowers(r)
    \/ \E r \in Req : toggleFollowFollowing(r)

FollowSpec == Init /\ [][FollowNext]_vars

CommentArgs == {<<"v1", "Video">>, <<"v0", "Video">>}

CommentNext ==
    \/ \E r \in Req, u \in Users, a \in CommentArgs, text \in Texts,
          parent \in {NoId} \cup CommentIds :
            createCommentCheck(r, u, a[1], a[2], text, parent)
    \/ \E r \in Req : createCommentCreate(r)
    \/ \E r \in Req : createCommentIncParent(r)
    \/ \E r \in Req, u \in Users, id \in CommentIds, text \in Texts :
            updateCommentFind(r, u, id, text)
    \/ \E r \in Req : updateCommentSave(r)
    \/ \E r \in Req, u \in Users, id \in CommentIds : deleteCommentFind(r, u, id)
    \/ \E r \in Req : deleteCommentDecParent(r)
    \/ \E r \in Req : deleteCommentDelete(r)

CommentSpec == Init /\ [][CommentNext]_vars

\* the real-time connections
SocketNext ==
    \/ \E s \in Sock, token \in Tokens : socketAuthVerify(s, token)
    \/ \E s \in Sock : socketAuthJoin(s)
    \/ \E s \in Sock : socketDisconnect(s)

\* like toggles of one user served while connections of any user come and go
RealtimeNext ==
    \/ SocketNext
    \/ \E r \in Req, c \in {"v1", "v0"} :
          r =< MaxSockReq /\ toggleLikeFind(r, "u1", c, "Video")
    \/ \E r \in Req : toggleLikeWrite(r)

RealtimeSpec == Init /\ [][RealtimeNext]_vars

\* likes of v1 while the feed is read
FeedNext ==
    \/ \E r \in Req, u \in Users : toggleLikeFind(r, u, "v1", "Video")
    \/ \E r \in Req : toggleLikeWrite(r)
    \/ \E r \in Req, u \in FeedRequesters : getVideoFeedCache(r, u)
    \/ \E r \in Req : getVideoFeedAggregate(r)
    \/ \E r \in Req : getVideoFeedSet(r)
    \/ redisExpire

FeedSpec == Init /\ [][FeedNext]_vars

ArticleNext ==
    \/ \E r \in Req, u \in ArticleRequesters : getArticleCache(r, u)
    \/ \E r \in Req : getArticleFind(r)
    \/ \E r \in Req : getArticleSave(r)
    \/ \E r \in Req : getArticleSet(r)
    \/ \E r \in Req, u \in Users, st \in ArticleStatuses : updateArticleFind(r, u, st)
    \/ \E r \in Req : updateArticleWrite(r)
    \/ \E r \in Req : updateArticleInvalidate(r)
    \/ \E r \in Req, u \in Users : deleteArticleFind(r, u)
    \/ \E r \in Req : deleteArticleWrite(r)
    \/ \E r \in Req : deleteArticleInvalidate(r)
    \/ redisExpire

ArticleSpec == Init /\ [][ArticleNext]_vars

\* The article routes served to readers and to the author with the cache
\* disabled, unconnected or flaky.
InitAnyRedis ==
    InitData /\ io = "ok" /\ redis \in RedisStates \ {"up"} /\ stream = NoStream

CacheFaultNext ==
    \/ \E r \in Req, u \in ArticleRequesters : getArticleCache(r, u)
    \/ \E r \in Req : getArticleFind(r)
    \/ \E r \in Req : getArticleSave(r)
    \/ \E r \in Req : getArticleSet(r)
    \/ \E r \in Req, st \in ArticleStatuses : updateArticleFind(r, Author, st)
    \/ \E r \in Req : updateArticleWrite(r)
    \/ \E r \in Req : updateArticleInvalidate(r)
    \/ \E r \in Req : deleteArticleFind(r, Author)
    \/ \E r \in Req : deleteArticleWrite(r)
    \/ \E r \in Req : deleteArticleInvalidate(r)

CacheFaultSpec == InitAnyRedis /\ [][CacheFaultNext]_vars

\* the follow route on a process that may die once
FollowCrashNext == FollowNext \/ processCrash

FollowCrashSpec == Init /\ [][FollowCrashNext]_vars

\* one stream request, of any file and Range header
InitStream == InitData /\ io = "ok" /\ redis = "up" /\ stream \in StreamRequests

StreamSpec == InitStream /\ [][streamVideo]_vars

\* all routes together
Next == \/ LikeNext \/ FollowNext \/ CommentNext \/ SocketNext
        \/ FeedNext \/ ArticleNext \/ processCrash \/ streamVideo

Spec == Init /\ [][Next]_vars

\* The comment routes served while req.io is in any of its states: set, still
\* undefined, or set to a handle whose emit raises.
InitAnyIo == InitStore /\ io \in IoStates

BroadcastFaultSpec == InitAnyIo /\ [][CommentNext]_vars

(***************************************************************************)
(* Properties.                                                             *)
(***************************************************************************)
LikeRows(u, c) == {l \in likes : l.user = u /\ l.content = c}

\* C1: in every reachable state, whatever the interleaving of toggleLike
\* requests, at most one Like row exists for each (user, content).
C1_LikeUniqueness ==
    \A u \in Users, c \in ContentIds : Cardinality(LikeRows(u, c)) =< 1

\* Two toggles of the same user on the same content both read "absent"; one
\* inserted, the other's insert hit the unique index; one row exists.
C1_Witness ==
    \E p, q \in Req :
        /\ p # q
        /\ Done(p) /\ Done(q)
        /\ req[p].op = "toggleLike" /\ req[q].op = "toggleLike"
        /\ req[p].user = req[q].user /\ req[p].contentId = req[q].contentId
        /\ req[p].wrote /\ req[q].dupKey
        /\ Cardinality(LikeRows(req[p].user, req[p].contentId)) = 1

SameLike(p, q) ==
    /\ req[p].op = "toggleLike" /\ req[q].op = "toggleLike"
    /\ req[p].user = req[q].user
    /\ req[p].contentId = req[q].contentId
    /\ req[p].contentType = req[q].contentType

\* the number of toggleLike calls on r's (user, content) that arrived before r
LikesBefore(r) == Cardinality({q \in Req : q < r /\ SameLike(q, r)})

Odd(n) == n % 2 = 1

\* C2: with non-overlapping toggleLike calls on existing content, the i-th
\* call on (U, C) answers 201 when i is odd and 200 when i is even, and once
\* n calls have completed the Like row exists iff n is odd.
C2_ToggleParity ==
    ~overlap =>
        \A r \in Req :
            (/\ Done(r)
             /\ req[r].op = "toggleLike"
             /\ LikeContentExists(req[r].contentId, req[r].contentType))
            => /\ req[r].status = (IF Odd(LikesBefore(r) + 1) THEN 201 ELSE 200)
               /\ (\A q \in Req : q > r => ~SameLike(q, r))
                    => (LikeRows(req[r].user, req[r].contentId) # {}
                           <=> Odd(LikesBefore(r) + 1))

\* Three sequential toggles of one user on one video: 201, 200, 201, liked.
C2_Witness ==
    /\ ~overlap
    /\ \E p, q, r \in Req :
        /\ p < q /\ q < r
        /\ Done(p) /\ Done(q) /\ Done(r)
        /\ SameLike(p, q) /\ SameLike(q, r)
        /\ req[p].status = 201 /\ req[q].status = 200 /\ req[r].status = 201
        /\ LikeRows(req[r].user, req[r].contentId) # {}

\* C3: a toggle whose insert hits the uniqueness constraint is answered as
\* "already existed" (a success), not with a raw conflict / internal error.
C3_DuplicateIsIdempotent ==
    \A r \in Req :
        (Done(r) /\ req[r].dupKey) => req[r].status \in {200, 201}

ActiveFollowers(x) ==
    Cardinality({w \in follows : w.following = x /\ w.status = "active"})

CountersMatch == \A x \in Users : stats[x].followers = ActiveFollowers(x)

\* C4: whenever no toggleFollow is in flight, every user's stats.followers
\* equals the number of active Follow rows toward that user, whatever the
\* interleaving that led there.
C4_EventualCounterConsistency == Quiescent => CountersMatch

\* C5: after any sequence of non-overlapping toggleFollow operations, every
\* user's stats.followers equals the number of active Follow rows toward it.
C5_SequentialCounterConsistency == (Quiescent /\ ~overlap) => CountersMatch

\* A follow, an unfollow and a follow have completed one after the other.
C5_Witness ==
    /\ Quiescent /\ ~overlap
    /\ follows # {}
    /\ \E p, q \in Req : /\ p < q
                         /\ req[p].op = "toggleFollow" /\ req[p].status = 201
                         /\ req[q].op = "toggleFollow" /\ req[q].status = 200

\* C6: toggleFollow(U, U) fails at once with 400 and changes no stored
\* state, and no Follow row ever has follower = following.
C6_SelfFollowRejected ==
    /\ [](\A w \in follows : w.follower # w.following)
    /\ [][\A r \in Req, u \in Users : toggleFollowFind(r, u, u) =>
            /\ req'[r].pc = "done" /\ req'[r].status = 400
            /\ UNCHANGED <<likes, follows, comments, stats, seq>>]_vars
    /\ [](\A r \in Req : (req[r].op = "toggleFollow"
                          /\ req[r].targetUserId = req[r].user
                          /\ req[r].user # None)
                         => (Done(r) /\ req[r].status = 400 /\ ~req[r].wrote))

\* A self-follow was answered while another user's follow row exists.
C6_Witness ==
    /\ follows # {}
    /\ \E r \in Req : /\ Done(r) /\ req[r].op = "toggleFollow"
                      /\ req[r].targetUserId = req[r].user
                      /\ req[r].status = 400

SuccessfulReplies(p) ==
    Cardinality({r \in Req : /\ Done(r) /\ req[r].op = "createComment"
                             /\ req[r].parentComment = p /\ req[r].status = 201})

SuccessfulReplyDeletes(p) ==
    Cardinality({r \in Req : /\ Done(r) /\ req[r].op = "deleteComment"
                             /\ req[r].parentComment = p /\ req[r].status = 200})

\* C7: after K successful replies to a comment P and D successful deletes of
\* distinct replies of P, all sequential, P.repliesCount = K - D.
C7_ReplyCountConsistency ==
    (Quiescent /\ ~overlap) =>
        \A p \in comments :
            p.repliesCount = SuccessfulReplies(p.id) - SuccessfulReplyDeletes(p.id)

\* A comment has received a reply and the reply has been deleted again.
C7_Witness ==
    /\ Quiescent /\ ~overlap
    /\ \E p \in comments : /\ SuccessfulReplies(p.id) >= 1
                           /\ SuccessfulReplyDeletes(p.id) >= 1
                           /\ p.repliesCount = 0

\* C8: after any sequence of createComment and deleteComment operations,
\* every stored comment with a parentComment references a stored comment.
C8_ParentReferenceIntegrity ==
    (Quiescent /\ ~overlap) =>
        \A c \in comments : c.parentComment # NoId => CommentExists(c.parentComment)

\* C9: a successful deleteComment keeps the row, with active = false.
C9_DeleteIsSoft ==
    \A r \in Req :
        (Done(r) /\ req[r].op = "deleteComment" /\ req[r].status = 200)
        => \E c \in comments : c.id = req[r].commentId /\ ~c.active

\* C10: a request whose ledger / comment write was applied reports success,
\* also when no broadcast handle is available or the emit fails.
C10_BroadcastNeverFailsMutation ==
    \A r \in Req : (Done(r) /\ req[r].wrote) => req[r].status \in {200, 201}

(***************************************************************************)
(* Real-time events.                                                       *)
(***************************************************************************)
Connected(s) == sockets[s].st = "connected"

\* C11: each successful toggleLike emits exactly one event, of type "like"
\* iff the call created the Like row and "unlike" iff it deleted it; every
\* connection listening at that time received exactly one packet of it; a
\* failed toggle emits none.
C11_OneEventPerToggle ==
    \A r \in Req :
        (Done(r) /\ req[r].op = "toggleLike") =>
            IF req[r].status \in {200, 201}
            THEN /\ (req[r].event = "like" <=> req[r].effect = "created")
                 /\ (req[r].event = "unlike" <=> req[r].effect = "deleted")
                 /\ req[r].event \in {"like", "unlike"}
                 /\ \A s \in Sock : sockets[s].got[r] =< 1
            ELSE /\ req[r].event = None
                 /\ \A s \in Sock : sockets[s].got[r] = 0

\* C12: a packet about content (contentType, contentId) reaches only
\* connections that joined the room "{contentType}:{contentId}".
C12_ChannelScoping ==
    \A s \in Sock, r \in Req :
        (Connected(s) /\ sockets[s].got[r] > 0)
        => <<req[r].contentType, req[r].contentId>> \in sockets[s].rooms

\* C13: a connection whose token is missing, malformed, expired or names a
\* user that does not exist is rejected with an error reason, never becomes
\* connected and is in no room.
C13_HandshakeRejection ==
    /\ [](\A s \in Sock :
            /\ sockets[s].st = "rejected" =>
                 /\ sockets[s].error # None
                 /\ sockets[s].rooms = {}
                 /\ sockets[s].user = None
                 /\ \A r \in Req : sockets[s].got[r] = 0
            /\ sockets[s].st = "lookup" => sockets[s].rooms = {}
            /\ Connected(s) => sockets[s].user \in Users)
    /\ [][\A s \in Sock, token \in Tokens :
            (socketAuthVerify(s, token) /\ token.kind # "valid")
            => sockets'[s].st = "rejected"]_vars
    /\ [][\A s \in Sock :
            (socketAuthJoin(s) /\ sockets[s].decoded \notin Users)
            => sockets'[s].st = "rejected"]_vars
    /\ [][\A s \in Sock :
            sockets[s].st = "rejected" => sockets'[s] = sockets[s]]_vars

\* One connection was refused for its token, another for its unknown user.
C13_Witness ==
    \E s, q \in Sock : /\ sockets[s].st = "rejected" /\ sockets[s].error = "jwt"
                       /\ sockets[q].st = "rejected"
                       /\ sockets[q].error = "User not found"

\* C14: a connected connection is in the room "user:<its own user id>" and in
\* no other user's room.
C14_OwnPrivateChannel ==
    \A s \in Sock :
        Connected(s) =>
            \A u \in UserIds : (<<"user", u>> \in sockets[s].rooms
                                  <=> u = sockets[s].user)

\* Connections of two different users are open.
C14_Witness ==
    \E s, q \in Sock : /\ Connected(s) /\ Connected(q)
                       /\ sockets[s].user # sockets[q].user

\* C15: a connection receives at most one packet per emitted event, and only
\* in the very step of the emit and only if it is connected at that time;
\* nothing is delivered later to one that was not.
C15_AtMostOnceUnqueued ==
    /\ [](\A s \in Sock, r \in Req : sockets[s].got[r] =< 1)
    /\ [][\A s \in Sock, r \in Req :
            sockets'[s].got[r] # sockets[s].got[r]
            => /\ Connected(s)
               /\ ~Done(r) /\ req'[r].pc = "done" /\ req'[r].event # None]_vars

\* An event reached one connection; a connection opened afterwards has not
\* received it.
C15_Witness ==
    \E s, q \in Sock, r \in Req :
        /\ Done(r) /\ req[r].event # None
        /\ sockets[s].got[r] = 1
        /\ Connected(q) /\ sockets[q].got[r] = 0

SocketMoves == {<<"idle", "lookup">>, <<"idle", "rejected">>,
                <<"lookup", "connected">>, <<"lookup", "rejected">>,
                <<"connected", "closed">>}

\* C16: a connection only moves forward through handshake, connected and
\* closed; it receives nothing before it is connected or after it closed;
\* it is in rooms only while connected, and a new connection starts with its
\* own user room alone, whatever earlier connections of that user had.
C16_ConnectionLifecycle ==
    /\ [][\A s \in Sock :
            /\ sockets'[s].st # sockets[s].st
                 => <<sockets[s].st, sockets'[s].st>> \in SocketMoves
            /\ sockets'[s].got # sockets[s].got => Connected(s)
            /\ sockets[s].st = "closed" => sockets'[s] = sockets[s]
            /\ (~Connected(s) /\ sockets'[s].st = "connected")
                 => sockets'[s].rooms = {<<"user", sockets'[s].user>>}]_vars
    /\ [](\A s \in Sock : ~Connected(s) => sockets[s].rooms = {})

\* A user's first connection received an event and closed; the same user's
\* second connection is open and has not received it.
C16_Witness ==
    \E s, q \in Sock, r \in Req :
        /\ s < q
        /\ sockets[s].st = "closed" /\ sockets[s].got[r] = 1
        /\ Connected(q) /\ sockets[q].user = sockets[s].user
        /\ sockets[q].got[r] = 0

(***************************************************************************)
(* Error paths and round trips.                                            *)
(***************************************************************************)
\* C17: toggleLike on content that does not exist under the given type, or
\* with a type outside the accepted ones, answers 404 at once, leaves the
\* Like collection as it was and emits nothing.
C17_LikeMissingContent ==
    /\ [][\A r \in Req, u \in Users, a \in LikeArgs :
            (/\ toggleLikeFind(r, u, a[1], a[2])
             /\ ~(a[2] = "Video" /\ a[1] \in Videos)
             /\ ~(a[2] = "Article" /\ a[1] \in Articles))
            => /\ req'[r].pc = "done"
               /\ req'[r].status = 404
               /\ req'[r].event = None
               /\ likes' = likes
               /\ sockets' = sockets]_vars
    /\ [](\A r \in Req :
            (Done(r) /\ req[r].op = "toggleLike" /\ req[r].status = 404)
            => (~req[r].wrote /\ req[r].effect = None /\ req[r].event = None))

\* A toggle on missing content was refused while a Like row is stored.
C17_Witness ==
    /\ likes # {}
    /\ \E r \in Req : Done(r) /\ req[r].op = "toggleLike" /\ req[r].status = 404

SameFollow(p, q) ==
    /\ req[p].op = "toggleFollow" /\ req[q].op = "toggleFollow"
    /\ req[p].status \in {200, 201} /\ req[q].status \in {200, 201}
    /\ req[p].user = req[q].user
    /\ req[p].targetUserId = req[q].targetUserId

\* the number of successful toggleFollow calls on r's pair that arrived before r
FollowsBefore(r) == Cardinality({q \in Req : q < r /\ SameFollow(q, r)})

ActiveFollowing(x) ==
    Cardinality({w \in follows : w.follower = x /\ w.status = "active"})

FollowRow(a, b) == \E w \in follows : w.follower = a /\ w.following = b

\* C18: with sequential toggleFollow calls, the odd calls on a pair (A, B)
\* create the Follow row (201) and the even ones delete it (200); after each
\* call B.stats.followers and A.stats.following count exactly the rows toward
\* B and from A, so a follow raises both by one, the unfollow returns both to
\* their prior values, and no other counter moves.
C18_FollowRoundTrip ==
    (Quiescent /\ ~overlap) =>
        /\ \A x \in Users : /\ stats[x].followers = ActiveFollowers(x)
                            /\ stats[x].following = ActiveFollowing(x)
        /\ \A r \in Req :
             (Done(r) /\ req[r].op = "toggleFollow" /\ req[r].status \in {200, 201})
             => /\ req[r].status = (IF Odd(FollowsBefore(r) + 1) THEN 201 ELSE 200)
                /\ (\A q \in Req : q > r => ~SameFollow(r, q))
                     => (FollowRow(req[r].user, req[r].targetUserId)
                           <=> Odd(FollowsBefore(r) + 1))

\* u1 followed and unfollowed u2 while u2 keeps following u1.
C18_Witness ==
    /\ Quiescent /\ ~overlap
    /\ \E p, q \in Req : /\ p < q /\ SameFollow(p, q)
                         /\ req[p].status = 201 /\ req[q].status = 200
                         /\ ~FollowRow(req[p].user, req[p].targetUserId)
                         /\ FollowRow(req[p].targetUserId, req[p].user)
                         /\ stats[req[p].user].followers = 1
                         /\ stats[req[p].user].following = 0

\* C19: toggleFollow toward a user that does not exist answers 404 at once
\* and leaves the Follow collection and every stats counter as they were,
\* emitting nothing.
C19_FollowMissingTarget ==
    [][\A r \in Req, u \in Users, t \in UserIds :
         (toggleFollowFind(r, u, t) /\ t \notin Users)
         => /\ req'[r].pc = "done"
            /\ req'[r].status = 404
            /\ req'[r].event = None
            /\ follows' = follows
            /\ stats' = stats
            /\ sockets' = sockets]_vars

\* A follow toward a missing user was refused while a Follow row is stored.
C19_Witness ==
    /\ follows # {}
    /\ \E r \in Req : Done(r) /\ req[r].op = "toggleFollow" /\ req[r].status = 404

\* C20: createComment stores a reply only under a parent that exists, and
\* that parent is there for the increment of its repliesCount that follows
\* the store.
C20_ReplyUnderExistingParent ==
    \A r \in Req :
        (req[r].op = "createComment" /\ req[r].pc = "incParent")
        => CommentExists(req[r].parentComment)

\* C21: createComment with empty, whitespace-only or over-long text is
\* refused as a client error (4xx), stores no comment, changes no
\* repliesCount and emits nothing.
C21_InvalidTextIsClientError ==
    [][\A r \in Req :
         (createCommentCreate(r) /\ ~TextValid(req[r].text))
         => /\ req'[r].pc = "done"
            /\ req'[r].status \in 400..499
            /\ req'[r].event = None
            /\ comments' = comments
            /\ sockets' = sockets]_vars

\* C22: updateComment or deleteComment by a user who is not the comment's
\* author answers 403 at once and leaves every stored comment (text,
\* isEdited, existence, repliesCount) as it was, emitting nothing.
C22_AuthorOnlyMutation ==
    /\ [][\A r \in Req, u \in Users, id \in CommentIds, text \in Texts :
            (/\ updateCommentFind(r, u, id, text)
             /\ \E c \in comments : c.id = id /\ c.user # u)
            => /\ req'[r].pc = "done" /\ req'[r].status = 403
               /\ req'[r].event = None
               /\ comments' = comments /\ sockets' = sockets]_vars
    /\ [][\A r \in Req, u \in Users, id \in CommentIds :
            (/\ deleteCommentFind(r, u, id)
             /\ \E c \in comments : c.id = id /\ c.user # u)
            => /\ req'[r].pc = "done" /\ req'[r].status = 403
               /\ req'[r].event = None
               /\ comments' = comments /\ sockets' = sockets]_vars

\* A stranger's delete and a stranger's update were refused; the reply and
\* its parent are stored, unedited, with the parent's count intact.
C22_Witness ==
    /\ \E p, q \in Req : /\ Done(p) /\ req[p].op = "updateComment" /\ req[p].status = 403
                         /\ Done(q) /\ req[q].op = "deleteComment" /\ req[q].status = 403
    /\ \A c \in comments : ~c.isEdited
    /\ comments # {}

(***************************************************************************)
(* Cached reads.                                                           *)
(***************************************************************************)
\* C23: a feed read is never served from a cache entry that was written
\* before an engagement mutation that had completed when the read started.
C23_FeedInvalidatedByMutation ==
    \A r \in Req :
        (Done(r) /\ req[r].op = "getVideoFeed" /\ req[r].hit) => ~req[r].stale

RedisOff == redis \in {"disabled", "unconnected"}

\* C24: with the cache disabled, unconnected or failing on single calls, no
\* cache call fails its caller: getArticle falls through to the store (or is
\* a hit when the call worked), setCache/deleteCache/clearCacheByPattern
\* leave the response 200 / 204, and a cache that is off holds and serves
\* nothing.
C24_CacheFailureNotFatal ==
    /\ [](RedisOff => (articleCache = {} /\ \A r \in Req : ~req[r].hit))
    /\ [][\A r \in Req, u \in ArticleRequesters :
            getArticleCache(r, u)
            => /\ \/ req'[r].pc = "find"
                  \/ req'[r].pc = "done" /\ req'[r].hit /\ req'[r].status = 200
               /\ RedisOff => req'[r].pc = "find"]_vars
    /\ [][\A r \in Req :
            getArticleSet(r)
            => /\ req'[r].pc = "done" /\ req'[r].status = 200
               /\ req'[r].doc = req[r].doc
               /\ articleCache' \in {articleCache, {req[r].doc}}]_vars
    /\ [][\A r \in Req :
            updateArticleInvalidate(r)
            => req'[r].pc = "done" /\ req'[r].status = 200 /\ article' = article]_vars
    /\ [][\A r \in Req :
            deleteArticleInvalidate(r)
            => req'[r].pc = "done" /\ req'[r].status = 204 /\ article' = article]_vars

\* On a flaky client an update's deleteCache failed: the update answered 200,
\* the article is updated and the entry of the previous read is still cached.
C24_Witness ==
    /\ redis = "flaky" /\ Quiescent /\ ~overlap
    /\ \E r \in Req : req[r].op = "updateArticle" /\ req[r].status = 200
    /\ \E e \in articleCache : e.rev # article.rev

\* C28: getArticle answers no request of a non-author with article a1 while
\* a1 is not published (and no update of it is still in flight).
C28_UnpublishedNotServed ==
    \A r \in Req :
        (Done(r) /\ req[r].op = "getArticle" /\ req[r].status = 200) => ~req[r].leak

\* C29: a getArticle that starts when every updateArticle / deleteArticle has
\* completed answers with the stored article's current state.
C29_ReadAfterWrite ==
    \A r \in Req :
        (Done(r) /\ req[r].op = "getArticle" /\ req[r].status = 200) => ~req[r].stale

(***************************************************************************)
(* Concurrency, crashes and counters.                                      *)
(***************************************************************************)
\* C25: a toggleLike on existing content by a user who has no other toggle
\* on that content, before or meanwhile, answers 201 and its Like row is
\* stored, whatever the other users' toggles on the same content do and
\* however they interleave.
C25_LikesOfDistinctUsers ==
    \A r \in Req :
        (/\ Done(r) /\ req[r].op = "toggleLike" /\ req[r].user # None
         /\ \A q \in Req : q # r => ~SameLike(q, r))
        => /\ req[r].status = 201
           /\ \E l \in likes : /\ l.user = req[r].user
                               /\ l.content = req[r].contentId
                               /\ l.contentType = req[r].contentType

\* u1 and u2 liked v1 in overlapping requests: both answered 201, two rows.
C25_Witness ==
    /\ overlap /\ req[3].pc = "idle"
    /\ req[1].op = "toggleLike" /\ req[2].op = "toggleLike"
    /\ req[1].status = 201 /\ req[2].status = 201
    /\ req[1].user # req[2].user
    /\ req[1].contentId = "v1" /\ req[2].contentId = "v1"
    /\ Cardinality({l \in likes : l.content = "v1"}) = 2

\* C26: the counter drift a crash inside toggleFollow left behind (counter
\* minus Follow rows, per user) is still the same whenever the toggleFollow
\* requests that came after the crash have completed.
C26_DriftIsPermanent ==
    (crash.at /\ Quiescent) =>
        \A x \in Users : /\ FollowersDrift(x) = crash.followers[x]
                         /\ FollowingDrift(x) = crash.following[x]

\* C27: whenever the requests have completed, however they interleaved,
\* stats.followers, stats.following and repliesCount are not negative.
C27_CountersNeverNegative ==
    Quiescent =>
        /\ \A x \in Users : stats[x].followers >= 0 /\ stats[x].following >= 0
        /\ \A c \in comments : c.repliesCount >= 0

\* C30: for an existing file of size S and a Range header, streamVideo
\* answers 416 when the parsed start is not a number or start >= S, and
\* otherwise 206 with 0 <= start <= end <= S - 1, Content-Length =
\* end - start + 1 and at most 10 MiB served.
C30_RangeBounds ==
    (stream.pc = "done" /\ stream.exists /\ stream.range.present) =>
        IF stream.start.nan \/ stream.start.n >= stream.fileSize
        THEN stream.status = 416
        ELSE /\ stream.status = 206
             /\ ~stream.end.nan
             /\ 0 =< stream.start.n
             /\ stream.start.n =< stream.end.n
             /\ stream.end.n =< stream.fileSize - 1
             /\ stream.contentLength = Num(stream.end.n - stream.start.n + 1)
             /\ stream.served =< MaxChunk

====
